---- MODULE Spec2Model ----
(***************************************************************************)
(* A model of streams.example.js: three of its examples, each run on the   *)
(* stream semantics of the platform the file is written for.               *)
(*                                                                         *)
(*   SpecDuplex     logChars                 (lines 84-108)                *)
(*   SpecPipe       readWriteStream          (lines 50-57)                 *)
(*   SpecTransform  convertInputToUpperCase  (lines 71-81)                 *)
(*                                                                         *)
(* zipGenerate (lines 60-68) is two pipes like the one of readWriteStream  *)
(* around a compressor whose output is not modelled.                       *)
(*                                                                         *)
(* Text is a sequence of code units, a Buffer a sequence of bytes.         *)
(***************************************************************************)
EXTENDS Integers, Sequences, FiniteSets, TLC

VARIABLES
    scenario,          \* which example function is running
    \* ---- logChars -------------------------------------------------------
    dpc,               \* position in the body of logChars
    currentCharCode,   \* myDuplexStream.currentCharCode
    dRBuf,             \* readable side: chunks pushed and not yet delivered
    dResumeScheduled,  \* readable side: resume() scheduled for a later tick
    dFlowing,          \* readable side: flowing after the resume tick ran
    dREnded,           \* readable side: push(null) has been seen
    dREndEmitted,      \* readable side: 'end' emitted
    dReceived,         \* texts logged by the 'data' listener ("Received: ")
    dWritten,          \* texts logged by the write handler ("Writing: ")
    dWriteCallbacks,   \* calls of the write handler's callback
    dWPending,         \* writable side: writes whose completion tick is due
    dWEnding,          \* writable side: end() has been called
    dWFinished,        \* writable side: 'finish' emitted
    dExtraReads,       \* invocations of read(size) after the end was pushed
    \* ---- convertInputToUpperCase ----------------------------------------
    tInput,            \* the chunks process.stdin will emit
    tPos,              \* how many of them it has emitted
    tStdinFlowing,     \* process.stdin is flowing (not paused by the pipe)
    tWBuf,             \* uppercaseTransform: chunks written and not yet transformed
    tNeedDrain,        \* uppercaseTransform: a write answered false
    tWEnding,          \* uppercaseTransform: end() called by the pipe from stdin
    tCallbacks,        \* calls of the transform callback
    tRBuf,             \* uppercaseTransform: chunks pushed and not yet delivered
    tREnded,           \* uppercaseTransform: readable side has seen its end
    tEndEmitted,       \* uppercaseTransform: 'end' emitted
    tStdout,           \* chunks written to process.stdout
    \* ---- readWriteStream ------------------------------------------------
    ppc,               \* position in the body of readWriteStream
    pFile,             \* the chunks input.txt is read as
    pIoFaulty,         \* whether file operations can fail in this run
    pSrcPos,           \* readableStream: chunks read from the file
    pRBuf,             \* readableStream: chunks read and not yet delivered
    pFlowing,          \* readableStream: flowing (not paused by the pipe)
    pREnded,           \* readableStream: end of file seen
    pREndEmitted,      \* readableStream: 'end' emitted
    pRErrored,         \* readableStream: a read failed, the stream is destroyed
    pWBuf,             \* writableStream: chunks written and not yet on disk
    pNeedDrain,        \* writableStream: a write answered false
    pWEnding,          \* writableStream: end() called
    pWFinished,        \* writableStream: 'finish' emitted
    pWErrored,         \* writableStream: a write to disk failed
    pDisk,             \* the chunks output.txt holds
    pErrorsRaised,     \* 'error' events raised to the owner of the streams
    pCrashed           \* an 'error' had no listener: the process has ended

duplexVars == <<dpc, currentCharCode, dRBuf, dResumeScheduled, dFlowing, dREnded,
                dREndEmitted, dReceived, dWritten, dWriteCallbacks, dWPending,
                dWEnding, dWFinished, dExtraReads>>

readableSide == <<currentCharCode, dRBuf, dResumeScheduled, dFlowing, dREnded,
                  dREndEmitted, dReceived, dExtraReads>>

writableSide == <<dWritten, dWriteCallbacks, dWPending, dWEnding, dWFinished>>

transformVars == <<tInput, tPos, tStdinFlowing, tWBuf, tNeedDrain, tWEnding, tCallbacks,
                   tRBuf, tREnded, tEndEmitted, tStdout>>

pipeVars == <<ppc, pFile, pIoFaulty, pSrcPos, pRBuf, pFlowing, pREnded, pREndEmitted,
              pRErrored, pWBuf, pNeedDrain, pWEnding, pWFinished, pWErrored, pDisk,
              pErrorsRaised, pCrashed>>

vars == <<scenario, duplexVars, transformVars, pipeVars>>

notDuplex == <<scenario, transformVars, pipeVars>>

notTransform == <<scenario, duplexVars, pipeVars>>

notPipe == <<scenario, duplexVars, transformVars>>

----------------------------------------------------------------------------
(* Bounds *)

MaxExtraReads == 2

\* Total bytes of the input of convertInputToUpperCase.
MaxStreamBytes == 3

\* highWaterMark of the writable side of uppercaseTransform, scaled down.
THighWaterMark == 2

\* Chunks input.txt is read as, and bytes in one chunk.
MaxChunks == 3

MaxChunkLen == 2

\* highWaterMark of readableStream and of writableStream, scaled down.
RHighWaterMark == 2

WHighWaterMark == 2

----------------------------------------------------------------------------
(* Text and bytes                                                          *)

\* The concatenation of a sequence of sequences.
RECURSIVE Concat(_)
Concat(ss) == IF ss = <<>> THEN <<>> ELSE Head(ss) \o Concat(Tail(ss))

\* The number of bytes held in a sequence of chunks.
Bytes(buf) == Len(Concat(buf))

ReplacementChar == 65533

IsContinuation(b) == b \in 128..191

\* Buffer.prototype.toString(): UTF-8 decoding of a whole buffer. A lead byte
\* of a two-byte sequence (0xC2-0xDF) followed by a continuation byte gives
\* one code unit; a lead byte with no continuation byte after it, a
\* continuation byte with no lead, and any other byte from 0x80 give U+FFFD
\* each. (Three- and four-byte sequences are not among the bytes drawn.)
RECURSIVE Utf8Decode(_)
Utf8Decode(bs) ==
    IF bs = <<>> THEN <<>>
    ELSE LET b == Head(bs) IN
         IF b < 128 THEN <<b>> \o Utf8Decode(Tail(bs))
         ELSE IF b \in 194..223 /\ Len(bs) >= 2 /\ IsContinuation(bs[2])
              THEN <<(b - 192) * 64 + (bs[2] - 128)>> \o Utf8Decode(Tail(Tail(bs)))
         ELSE <<ReplacementChar>> \o Utf8Decode(Tail(bs))

\* The UTF-8 bytes of one code unit (no surrogate is ever encoded here).
Utf8EncodeUnit(u) ==
    IF u < 128 THEN <<u>>
    ELSE IF u < 2048 THEN <<192 + (u \div 64), 128 + (u % 64)>>
    ELSE <<224 + (u \div 4096), 128 + ((u \div 64) % 64), 128 + (u % 64)>>

\* Buffer.from(text, 'utf8'): what push(text) and write(text) store.
RECURSIVE Utf8Encode(_)
Utf8Encode(t) ==
    IF t = <<>> THEN <<>> ELSE Utf8EncodeUnit(Head(t)) \o Utf8Encode(Tail(t))

\* String.prototype.toUpperCase() on one code unit of U+0000-U+00FF or
\* U+FFFD: a-z and the Latin-1 small letters map 32 down, with the three
\* exceptions of that range (U+00B5, U+00DF, U+00FF); U+00F7 and all else
\* are unchanged.
ToUpperUnit(u) ==
    IF u \in 97..122 THEN <<u - 32>>
    ELSE IF u = 181 THEN <<924>>
    ELSE IF u = 223 THEN <<83, 83>>
    ELSE IF u \in 224..254 /\ u # 247 THEN <<u - 32>>
    ELSE IF u = 255 THEN <<376>>
    ELSE <<u>>

RECURSIVE ToUpperCase(_)
ToUpperCase(t) ==
    IF t = <<>> THEN <<>> ELSE ToUpperUnit(Head(t)) \o ToUpperCase(Tail(t))

\* null, as pushed to end a readable side.
Null == <<-1>>

\* push(chunk) on a readable side: null marks the end; an empty chunk adds
\* nothing; nothing is added after the end.
Push(buf, ended, chunk) ==
    IF chunk = Null THEN [buf |-> buf, ended |-> TRUE]
    ELSE IF chunk = <<>> \/ ended THEN [buf |-> buf, ended |-> ended]
    ELSE [buf |-> Append(buf, chunk), ended |-> ended]

----------------------------------------------------------------------------
(* The examples that are not running                                      *)

\* logChars is not called.
DuplexIdle ==
    /\ dpc = "idle"
    /\ currentCharCode = 0
    /\ dRBuf = <<>>
    /\ dResumeScheduled = FALSE
    /\ dFlowing = FALSE
    /\ dREnded = FALSE
    /\ dREndEmitted = FALSE
    /\ dReceived = <<>>
    /\ dWritten = <<>>
    /\ dWriteCallbacks = 0
    /\ dWPending = 0
    /\ dWEnding = FALSE
    /\ dWFinished = FALSE
    /\ dExtraReads = 0

\* convertInputToUpperCase is not called.
TransformIdle ==
    /\ tInput = <<>>
    /\ tPos = 0
    /\ tStdinFlowing = FALSE
    /\ tWBuf = <<>>
    /\ tNeedDrain = FALSE
    /\ tWEnding = FALSE
    /\ tCallbacks = 0
    /\ tRBuf = <<>>
    /\ tREnded = FALSE
    /\ tEndEmitted = FALSE
    /\ tStdout = <<>>

\* readWriteStream is not called.
PipeIdle ==
    /\ ppc = "idle"
    /\ pFile = <<>>
    /\ pIoFaulty = FALSE
    /\ pSrcPos = 0
    /\ pRBuf = <<>>
    /\ pFlowing = FALSE
    /\ pREnded = FALSE
    /\ pREndEmitted = FALSE
    /\ pRErrored = FALSE
    /\ pWBuf = <<>>
    /\ pNeedDrain = FALSE
    /\ pWEnding = FALSE
    /\ pWFinished = FALSE
    /\ pWErrored = FALSE
    /\ pDisk = <<>>
    /\ pErrorsRaised = 0
    /\ pCrashed = FALSE

----------------------------------------------------------------------------
(* logChars                                                                *)

FirstCharCode == 65

LastCharCode == 90

\* String.fromCharCode(n): the one-unit text whose code unit is n mod 2^16.
FromCharCode(n) == <<n % 65536>>

\* `${chunk}`: the text of the Buffer that a pushed or written text became.
ChunkText(t) == Utf8Decode(Utf8Encode(t))

\* 'Hello'
Hello == <<72, 101, 108, 108, 111>>

\* The stream is constructed and currentCharCode assigned (lines 85-99).
InitDuplex ==
    /\ scenario = "logChars"
    /\ TransformIdle
    /\ PipeIdle
    /\ dpc = "on_data"
    /\ currentCharCode = FirstCharCode
    /\ dRBuf = <<>>
    /\ dResumeScheduled = FALSE
    /\ dFlowing = FALSE
    /\ dREnded = FALSE
    /\ dREndEmitted = FALSE
    /\ dReceived = <<>>
    /\ dWritten = <<>>
    /\ dWriteCallbacks = 0
    /\ dWPending = 0
    /\ dWEnding = FALSE
    /\ dWFinished = FALSE
    /\ dExtraReads = 0

\* Callbacks deferred to a later tick run only once the body of logChars has
\* run to completion.
TickReady == dpc = "returned"

\* myDuplexStream.on('data', ...): the listener is registered and the stream
\* is resumed, which only schedules the start of the flow.
DuplexOnDataSync ==
    /\ dpc = "on_data"
    /\ dpc' = "write"
    /\ dFlowing' = TRUE
    /\ dRBuf' = <<>>
    /\ dReceived' = Append(dReceived, ChunkText(FromCharCode(currentCharCode)))
    /\ currentCharCode' = currentCharCode + 1
    /\ UNCHANGED <<notDuplex, dResumeScheduled, dREnded, dREndEmitted, dExtraReads,
                   writableSide>>

DuplexOnData ==
    /\ dpc = "on_data"
    /\ dpc' = "write"
    /\ dResumeScheduled' = TRUE
    /\ UNCHANGED <<notDuplex, currentCharCode, dRBuf, dFlowing, dREnded, dREndEmitted,
                   dReceived, dExtraReads, writableSide>>

\* myDuplexStream.write('Hello'): nothing is being written, so the write
\* handler runs inside the call: it logs the chunk and calls back.
DuplexWrite ==
    /\ dpc = "write"
    /\ dpc' = "end"
    /\ dWritten' = Append(dWritten, ChunkText(Hello))
    /\ dWriteCallbacks' = dWriteCallbacks + 1
    /\ dWPending' = dWPending + 1
    /\ UNCHANGED <<notDuplex, readableSide, dWEnding, dWFinished>>

\* myDuplexStream.end(): only the writable side is ended.
DuplexEndLinked ==
    /\ dpc = "end"
    /\ dpc' = "returned"
    /\ dWEnding' = TRUE
    /\ dREnded' = TRUE
    /\ UNCHANGED <<notDuplex, currentCharCode, dRBuf, dResumeScheduled, dFlowing,
                   dREndEmitted, dReceived, dExtraReads, dWritten, dWriteCallbacks,
                   dWPending, dWFinished>>

DuplexEnd ==
    /\ dpc = "end"
    /\ dpc' = "returned"
    /\ dWEnding' = TRUE
    /\ UNCHANGED <<notDuplex, readableSide, dWritten, dWriteCallbacks, dWPending,
                   dWFinished>>

\* The tick scheduled by resume(): the stream starts flowing.
DuplexResumeTick ==
    /\ TickReady
    /\ dResumeScheduled
    /\ dResumeScheduled' = FALSE
    /\ dFlowing' = TRUE
    /\ UNCHANGED <<notDuplex, dpc, currentCharCode, dRBuf, dREnded, dREndEmitted,
                   dReceived, dExtraReads, writableSide>>

\* read(size), lines 90-96: the chunk it pushes and the code it leaves.
ReadPushOffByOne(code) ==
    IF code >= LastCharCode THEN [chunk |-> Null, code |-> code]
    ELSE [chunk |-> FromCharCode(code), code |-> code + 1]

ReadPush(code) ==
    IF code > LastCharCode THEN [chunk |-> Null, code |-> code]
    ELSE [chunk |-> FromCharCode(code), code |-> code + 1]

\* The stream invokes read(size) while it flows and has not ended; further
\* invocations after the end are counted up to MaxExtraReads.
DuplexRead ==
    /\ dFlowing
    /\ dREnded => dExtraReads < MaxExtraReads
    /\ LET r == ReadPush(currentCharCode)
           p == Push(dRBuf, dREnded, r.chunk)
       IN /\ currentCharCode' = r.code
          /\ dRBuf' = p.buf
          /\ dREnded' = p.ended
    /\ dExtraReads' = IF dREnded THEN dExtraReads + 1 ELSE dExtraReads
    /\ UNCHANGED <<notDuplex, dpc, dResumeScheduled, dFlowing, dREndEmitted, dReceived,
                   writableSide>>

\* A buffered chunk is delivered to the 'data' listener (lines 101-103).
DuplexData ==
    /\ dFlowing
    /\ dRBuf # <<>>
    /\ dReceived' = Append(dReceived, ChunkText(Head(dRBuf)))
    /\ dRBuf' = Tail(dRBuf)
    /\ UNCHANGED <<notDuplex, dpc, currentCharCode, dResumeScheduled, dFlowing, dREnded,
                   dREndEmitted, dExtraReads, writableSide>>

\* 'end' of the readable side: the end was pushed and the buffer is empty.
DuplexEndEmit ==
    /\ dFlowing
    /\ dREnded
    /\ dRBuf = <<>>
    /\ ~dREndEmitted
    /\ dREndEmitted' = TRUE
    /\ UNCHANGED <<notDuplex, dpc, currentCharCode, dRBuf, dResumeScheduled, dFlowing,
                   dREnded, dReceived, dExtraReads, writableSide>>

\* The completion tick of a write whose handler called back inside write().
DuplexAfterWrite ==
    /\ TickReady
    /\ dWPending > 0
    /\ dWPending' = dWPending - 1
    /\ UNCHANGED <<notDuplex, dpc, readableSide, dWritten, dWriteCallbacks, dWEnding,
                   dWFinished>>

\* 'finish' of the writable side: ended and every write completed.
DuplexFinish ==
    /\ TickReady
    /\ dWEnding
    /\ dWPending = 0
    /\ ~dWFinished
    /\ dWFinished' = TRUE
    /\ UNCHANGED <<notDuplex, dpc, readableSide, dWritten, dWriteCallbacks, dWPending,
                   dWEnding>>

NextDuplex ==
    \/ DuplexOnData
    \/ DuplexWrite
    \/ DuplexEnd
    \/ DuplexResumeTick
    \/ DuplexRead
    \/ DuplexData
    \/ DuplexEndEmit
    \/ DuplexAfterWrite
    \/ DuplexFinish

SpecDuplex == InitDuplex /\ [][NextDuplex]_vars

\* Every scheduled tick is run by the event loop.
SpecDuplexFair == SpecDuplex /\ WF_vars(NextDuplex)

----------------------------------------------------------------------------
(* convertInputToUpperCase                                                 *)

\* The bytes the input is drawn from: 'a', and the two bytes of U+00E9.
InputBytes == {97, 195, 169}

\* The buffers of n input bytes.
RECURSIVE BuffersOfLen(_)
BuffersOfLen(n) ==
    IF n = 0 THEN {<<>>}
    ELSE {<<b>> \o r : b \in InputBytes, r \in BuffersOfLen(n - 1)}

\* Every way process.stdin can deliver n bytes as non-empty chunks.
RECURSIVE Chunkings(_)
Chunkings(n) ==
    IF n = 0 THEN {<<>>}
    ELSE UNION {{<<c>> \o r : c \in BuffersOfLen(k), r \in Chunkings(n - k)} : k \in 1..n}

\* process.stdin.pipe(uppercaseTransform).pipe(process.stdout) has run
\* (line 80): both pipes are set up and process.stdin flows.
InitTransform ==
    /\ scenario = "convertInputToUpperCase"
    /\ DuplexIdle
    /\ PipeIdle
    /\ tInput \in UNION {Chunkings(n) : n \in 0..MaxStreamBytes}
    /\ tPos = 0
    /\ tStdinFlowing = TRUE
    /\ tWBuf = <<>>
    /\ tNeedDrain = FALSE
    /\ tWEnding = FALSE
    /\ tCallbacks = 0
    /\ tRBuf = <<>>
    /\ tREnded = FALSE
    /\ tEndEmitted = FALSE
    /\ tStdout = <<>>

\* transform(chunk, encoding, callback), lines 73-77: the chunks it pushes
\* and the number of times it calls back.
UppercaseTransformNoUpper(chunk) ==
    [pushed |-> <<Utf8Encode(Utf8Decode(chunk))>>, callbacks |-> 1]

UppercaseTransform(chunk) ==
    LET uppercasedChunk == ToUpperCase(Utf8Decode(chunk))
    IN [pushed |-> <<Utf8Encode(uppercasedChunk)>>, callbacks |-> 1]

\* 'data' of process.stdin: the pipe writes the chunk to uppercaseTransform
\* and pauses process.stdin when the write answers false.
StdinData ==
    /\ tStdinFlowing
    /\ tPos < Len(tInput)
    /\ LET buf == Append(tWBuf, tInput[tPos + 1])
           ret == Bytes(buf) < THighWaterMark
       IN /\ tWBuf' = buf
          /\ tNeedDrain' = (tNeedDrain \/ ~ret)
          /\ tStdinFlowing' = ret
    /\ tPos' = tPos + 1
    /\ UNCHANGED <<notTransform, tInput, tWEnding, tCallbacks, tRBuf, tREnded,
                   tEndEmitted, tStdout>>

\* 'end' of process.stdin: the pipe ends uppercaseTransform.
StdinEnd ==
    /\ tStdinFlowing
    /\ tPos = Len(tInput)
    /\ ~tWEnding
    /\ tWEnding' = TRUE
    /\ UNCHANGED <<notTransform, tInput, tPos, tStdinFlowing, tWBuf, tNeedDrain,
                   tCallbacks, tRBuf, tREnded, tEndEmitted, tStdout>>

\* uppercaseTransform handles its oldest written chunk; when that empties the
\* writable side after a write answered false, 'drain' resumes process.stdin.
TransformStep ==
    /\ tWBuf # <<>>
    /\ LET r == UppercaseTransform(Head(tWBuf))
           drain == Tail(tWBuf) = <<>> /\ tNeedDrain /\ ~tWEnding
       IN /\ tRBuf' = tRBuf \o SelectSeq(r.pushed, LAMBDA c : c # <<>>)
          /\ tCallbacks' = tCallbacks + r.callbacks
          /\ tNeedDrain' = (tNeedDrain /\ ~drain)
          /\ tStdinFlowing' = (tStdinFlowing \/ drain)
    /\ tWBuf' = Tail(tWBuf)
    /\ UNCHANGED <<notTransform, tInput, tPos, tWEnding, tREnded, tEndEmitted, tStdout>>

\* uppercaseTransform was ended and has handled every written chunk: its
\* readable side is ended.
TransformFinal ==
    /\ tWEnding
    /\ tWBuf = <<>>
    /\ ~tREnded
    /\ tREnded' = Push(tRBuf, tREnded, Null).ended
    /\ UNCHANGED <<notTransform, tInput, tPos, tStdinFlowing, tWBuf, tNeedDrain,
                   tWEnding, tCallbacks, tRBuf, tEndEmitted, tStdout>>

\* 'data' of uppercaseTransform: the pipe writes the chunk to process.stdout.
StdoutWrite ==
    /\ tRBuf # <<>>
    /\ tStdout' = Append(tStdout, Head(tRBuf))
    /\ tRBuf' = Tail(tRBuf)
    /\ UNCHANGED <<notTransform, tInput, tPos, tStdinFlowing, tWBuf, tNeedDrain,
                   tWEnding, tCallbacks, tREnded, tEndEmitted>>

\* 'end' of uppercaseTransform, once everything pushed has been delivered.
TransformEndEmit ==
    /\ tREnded
    /\ tRBuf = <<>>
    /\ ~tEndEmitted
    /\ tEndEmitted' = TRUE
    /\ UNCHANGED <<notTransform, tInput, tPos, tStdinFlowing, tWBuf, tNeedDrain,
                   tWEnding, tCallbacks, tRBuf, tREnded, tStdout>>

NextTransform ==
    \/ StdinData
    \/ StdinEnd
    \/ TransformStep
    \/ TransformFinal
    \/ StdoutWrite
    \/ TransformEndEmit

SpecTransform == InitTransform /\ [][NextTransform]_vars

----------------------------------------------------------------------------
(* readWriteStream                                                         *)

\* The sequences of at most n chunk lengths.
RECURSIVE ChunkLengths(_)
ChunkLengths(n) ==
    IF n = 0 THEN {<<>>}
    ELSE ChunkLengths(n - 1)
         \cup {Append(ls, l) : ls \in {x \in ChunkLengths(n - 1) : Len(x) = n - 1},
                               l \in 1..MaxChunkLen}

\* A file read as chunks of the given lengths; every byte of chunk i is i,
\* so that no two chunks are equal (the pipe never looks into a chunk).
FileOfLengths(ls) == [i \in 1..Len(ls) |-> [j \in 1..ls[i] |-> i]]

\* Both streams are constructed (lines 51-52); pipe() is not yet called.
InitPipe ==
    /\ scenario = "readWriteStream"
    /\ DuplexIdle
    /\ TransformIdle
    /\ ppc = "pipe"
    /\ pFile \in {FileOfLengths(ls) : ls \in ChunkLengths(MaxChunks)}
    /\ pIoFaulty \in BOOLEAN
    /\ pSrcPos = 0
    /\ pRBuf = <<>>
    /\ pFlowing = FALSE
    /\ pREnded = FALSE
    /\ pREndEmitted = FALSE
    /\ pRErrored = FALSE
    /\ pWBuf = <<>>
    /\ pNeedDrain = FALSE
    /\ pWEnding = FALSE
    /\ pWFinished = FALSE
    /\ pWErrored = FALSE
    /\ pDisk = <<>>
    /\ pErrorsRaised = 0
    /\ pCrashed = FALSE

\* Neither stream has an 'error' listener of the owner (lines 51-54): the
\* first 'error' is an uncaught exception, and nothing runs after it.
ProcessAliveAlways == TRUE

ProcessAlive == ~pCrashed

\* File operations complete in later turns of the event loop, after the body
\* of readWriteStream has run to completion.
IoReady == ppc = "returned" /\ ProcessAlive

\* What the sink has been given: the chunks passed to writableStream.write().
PipeReceived == pDisk \o pWBuf

\* writableStream.write(chunk): the chunk is buffered, and the answer is
\* false once the buffered bytes reach the highWaterMark.
DestWriteDropping(buf, chunk) ==
    IF Bytes(Append(buf, chunk)) < WHighWaterMark
    THEN [buf |-> Append(buf, chunk), ret |-> TRUE]
    ELSE [buf |-> buf, ret |-> FALSE]

DestWrite(buf, chunk) ==
    [buf |-> Append(buf, chunk), ret |-> Bytes(Append(buf, chunk)) < WHighWaterMark]

\* The 'data' listener of the pipe: whether the source keeps flowing after a
\* write that answered ret.
OnDataKeepsFlowingAlways(ret) == TRUE

OnDataKeepsFlowing(ret) == ret

\* Whether the completion of a write emits 'drain': the buffer is empty, a
\* write answered false, and the stream is not ending.
EmitsDrainNever(rest, needDrain, ending) == FALSE

EmitsDrain(rest, needDrain, ending) == rest = <<>> /\ needDrain /\ ~ending

\* readableStream.pipe(writableStream), line 54: the listeners are set and
\* the source is resumed.
PipeCall ==
    /\ ppc = "pipe"
    /\ ppc' = "log"
    /\ pFlowing' = TRUE
    /\ UNCHANGED <<notPipe, pFile, pIoFaulty, pSrcPos, pRBuf, pREnded, pREndEmitted,
                   pRErrored, pWBuf, pNeedDrain, pWEnding, pWFinished, pWErrored, pDisk,
                   pErrorsRaised, pCrashed>>

\* console.log('File is being copied...'), line 56, and the return.
LogCopying ==
    /\ ppc = "log"
    /\ ppc' = "returned"
    /\ UNCHANGED <<notPipe, pFile, pIoFaulty, pSrcPos, pRBuf, pFlowing, pREnded,
                   pREndEmitted, pRErrored, pWBuf, pNeedDrain, pWEnding, pWFinished,
                   pWErrored, pDisk, pErrorsRaised, pCrashed>>

\* A read of input.txt completes: the next chunk, or the end of the file, is
\* pushed. The stream reads while it holds less than its highWaterMark,
\* paused or not.
SrcRead ==
    /\ IoReady
    /\ ~pREnded /\ ~pRErrored
    /\ Bytes(pRBuf) < RHighWaterMark
    /\ LET chunk == IF pSrcPos < Len(pFile) THEN pFile[pSrcPos + 1] ELSE Null
           p == Push(pRBuf, pREnded, chunk)
       IN /\ pRBuf' = p.buf
          /\ pREnded' = p.ended
          /\ pSrcPos' = IF chunk = Null THEN pSrcPos ELSE pSrcPos + 1
    /\ UNCHANGED <<notPipe, ppc, pFile, pIoFaulty, pFlowing, pREndEmitted, pRErrored,
                   pWBuf, pNeedDrain, pWEnding, pWFinished, pWErrored, pDisk,
                   pErrorsRaised, pCrashed>>

\* A read of input.txt fails: readableStream is destroyed and reads no more.
SrcError ==
    /\ IoReady
    /\ pIoFaulty
    /\ ~pREnded /\ ~pRErrored
    /\ Bytes(pRBuf) < RHighWaterMark
    /\ pRErrored' = TRUE
    /\ UNCHANGED <<notPipe, ppc, pFile, pIoFaulty, pSrcPos, pRBuf, pFlowing, pREnded,
                   pREndEmitted, pWBuf, pNeedDrain, pWEnding, pWFinished, pWErrored,
                   pDisk, pErrorsRaised, pCrashed>>

\* 'error' of the destroyed readableStream, a tick later: pipe() listens for
\* errors of the destination only, so the error is thrown; writableStream is
\* neither ended nor unpiped.
SrcErrorEmit ==
    /\ IoReady
    /\ pRErrored
    /\ pErrorsRaised' = pErrorsRaised + 1
    /\ pCrashed' = TRUE
    /\ UNCHANGED <<notPipe, ppc, pFile, pIoFaulty, pSrcPos, pRBuf, pFlowing, pREnded,
                   pREndEmitted, pRErrored, pWBuf, pNeedDrain, pWEnding, pWFinished,
                   pWErrored, pDisk>>

\* 'data' of readableStream: the pipe writes the chunk to writableStream and
\* pauses the source when the write answers false.
SrcData ==
    /\ IoReady
    /\ pFlowing
    /\ pRBuf # <<>>
    /\ LET w == DestWrite(pWBuf, Head(pRBuf))
       IN /\ pWBuf' = w.buf
          /\ pNeedDrain' = (pNeedDrain \/ ~w.ret)
          /\ pFlowing' = OnDataKeepsFlowing(w.ret)
    /\ pRBuf' = Tail(pRBuf)
    /\ UNCHANGED <<notPipe, ppc, pFile, pIoFaulty, pSrcPos, pREnded, pREndEmitted,
                   pRErrored, pWEnding, pWFinished, pWErrored, pDisk, pErrorsRaised,
                   pCrashed>>

\* 'end' of readableStream, emitted while it flows once the end of the file
\* was seen and everything read has been delivered: the pipe ends
\* writableStream.
SrcEnd ==
    /\ IoReady
    /\ pFlowing
    /\ pREnded
    /\ pRBuf = <<>>
    /\ ~pREndEmitted
    /\ pREndEmitted' = TRUE
    /\ pWEnding' = TRUE
    /\ UNCHANGED <<notPipe, ppc, pFile, pIoFaulty, pSrcPos, pRBuf, pFlowing, pREnded,
                   pRErrored, pWBuf, pNeedDrain, pWFinished, pWErrored, pDisk,
                   pErrorsRaised, pCrashed>>

\* The oldest buffered chunk is written to output.txt; 'drain' makes the
\* pipe resume the source.
SinkFlush ==
    /\ IoReady
    /\ pWBuf # <<>>
    /\ pDisk' = Append(pDisk, Head(pWBuf))
    /\ pWBuf' = Tail(pWBuf)
    /\ LET drain == EmitsDrain(Tail(pWBuf), pNeedDrain, pWEnding)
       IN /\ pNeedDrain' = (pNeedDrain /\ ~drain)
          /\ pFlowing' = (pFlowing \/ drain)
    /\ UNCHANGED <<notPipe, ppc, pFile, pIoFaulty, pSrcPos, pRBuf, pREnded, pREndEmitted,
                   pRErrored, pWEnding, pWFinished, pWErrored, pErrorsRaised, pCrashed>>

\* The write of the oldest buffered chunk fails: the pipe unpipes, and with
\* no other 'error' listener on writableStream the error is thrown.
SinkError ==
    /\ IoReady
    /\ pIoFaulty
    /\ pWBuf # <<>>
    /\ pWErrored' = TRUE
    /\ pFlowing' = FALSE
    /\ pErrorsRaised' = pErrorsRaised + 1
    /\ pCrashed' = TRUE
    /\ UNCHANGED <<notPipe, ppc, pFile, pIoFaulty, pSrcPos, pRBuf, pREnded, pREndEmitted,
                   pRErrored, pWBuf, pNeedDrain, pWEnding, pWFinished, pDisk>>

\* 'finish' of writableStream: ended, and everything written is on disk.
SinkFinish ==
    /\ IoReady
    /\ pWEnding
    /\ pWBuf = <<>>
    /\ ~pWFinished
    /\ pWFinished' = TRUE
    /\ UNCHANGED <<notPipe, ppc, pFile, pIoFaulty, pSrcPos, pRBuf, pFlowing, pREnded,
                   pREndEmitted, pRErrored, pWBuf, pNeedDrain, pWEnding, pWErrored, pDisk,
                   pErrorsRaised, pCrashed>>

NextPipe ==
    \/ PipeCall
    \/ LogCopying
    \/ SrcRead
    \/ SrcError
    \/ SrcErrorEmit
    \/ SrcData
    \/ SrcEnd
    \/ SinkFlush
    \/ SinkError
    \/ SinkFinish

SpecPipe == InitPipe /\ [][NextPipe]_vars

\* The event loop runs every completion it has.
SpecPipeFair == SpecPipe /\ WF_vars(NextPipe)

----------------------------------------------------------------------------
(* Properties                                                              *)

IsPrefix(a, b) == Len(a) <= Len(b) /\ a = SubSeq(b, 1, Len(a))

Front(q) == SubSeq(q, 1, Len(q) - 1)

\* The state of the pipe of readWriteStream as its owner sees it.
PipeState ==
    IF ppc = "pipe" THEN "Idle"
    ELSE IF pErrorsRaised > 0 THEN "Errored"
    ELSE IF pWFinished THEN "Completed"
    ELSE "Running"

\* The pipe is suspended by backpressure.
Suspended == pNeedDrain /\ ~pFlowing

\* 'A' ... 'Z', one chunk each.
AtoZ == [i \in 1..26 |-> <<64 + i>>]

\* Everything the readable side of the Duplex has produced so far.
DuplexProduced == dReceived \o dRBuf

\* The chunks uppercaseTransform has handled, and what it has put out.
Handled == tPos - Len(tWBuf)

TransformOutput == tStdout \o tRBuf

\* C1: whatever the interleaving of reads, backpressure and drains, the sink
\* is given a prefix of the chunks of the source, in their order; when the
\* source has emitted its end the sink has been ended and has been given
\* exactly the chunks of the source, and when the sink has finished the
\* output holds exactly them, with the same concatenated payload.
C1_OrderedLossless ==
    /\ IsPrefix(PipeReceived, pFile)
    /\ pREndEmitted => (pWEnding /\ PipeReceived = pFile)
    /\ pWFinished => (pDisk = pFile /\ Concat(pDisk) = Concat(pFile))

C1_Witness == pWFinished /\ Len(pFile) >= 2 /\ pDisk = pFile

\* C2: the readable side of the Duplex produces 'A'..'Z' in order, one chunk
\* per increment of currentCharCode from 65; its end is pushed only when the
\* code has passed 90 and all 26 were produced, 'end' is emitted only when
\* all 26 were received, and once the end is pushed no invocation of read()
\* produces anything or moves the code.
C2_AlphabetThenEnd ==
    /\ [](/\ IsPrefix(DuplexProduced, AtoZ)
          /\ currentCharCode = FirstCharCode + Len(DuplexProduced)
          /\ dREnded => (currentCharCode = LastCharCode + 1 /\ DuplexProduced = AtoZ)
          /\ dREndEmitted => dReceived = AtoZ)
    /\ [][dREnded => /\ dREnded'
                     /\ DuplexProduced' = DuplexProduced
                     /\ currentCharCode' = currentCharCode]_vars

C2_Witness == dREndEmitted /\ dExtraReads >= 1 /\ dReceived = AtoZ

\* C3: when the source has failed after emitting one chunk to the pipe and
\* the failure has been raised, the sink has been given that one chunk and
\* has been ended.
C3_SinkClosedOnSourceError ==
    (pRErrored /\ ~pWErrored /\ pErrorsRaised > 0 /\ pSrcPos = 1 /\ pRBuf = <<>>)
        => (PipeReceived = <<pFile[1]>> /\ pWEnding)

\* C4: the bytes buffered toward the sink stay below the highWaterMark once
\* the newest chunk is set aside, on the writable side and on the readable
\* side of the pipe: the highWaterMark is exceeded by less than one chunk.
C4_WatermarkBound ==
    /\ pWBuf # <<>> => Bytes(Front(pWBuf)) < WHighWaterMark
    /\ pRBuf # <<>> => Bytes(Front(pRBuf)) < RHighWaterMark
    /\ Bytes(pWBuf) < WHighWaterMark + MaxChunkLen
    /\ Bytes(pRBuf) < RHighWaterMark + MaxChunkLen

C4_Witness == Bytes(pWBuf) > WHighWaterMark /\ ~pFlowing /\ pRBuf # <<>>

\* C5: while the pipe is suspended by backpressure nothing is written to the
\* sink, and in a run without failures a suspended pipe is eventually
\* resumed and completes with every chunk of the source on disk.
C5_BackpressureResumes ==
    /\ [][Suspended => (PipeReceived' = PipeReceived)]_vars
    /\ ((~pIoFaulty /\ Suspended) ~> (pWFinished /\ pDisk = pFile))

C5_Witness == ~pIoFaulty /\ Suspended /\ pRBuf # <<>> /\ pSrcPos < Len(pFile)

\* C6: uppercaseTransform calls back once and puts out one chunk per chunk
\* handled, the i-th output being the uppercase of the i-th input ('a' gives
\* 'A', U+00E9 gives U+00C9, no output holds a-z); its readable side ends
\* only when every input chunk is handled, and 'end' is emitted only when
\* every output has been written to process.stdout.
C6_OneUppercaseChunkPerChunk ==
    /\ tCallbacks = Handled
    /\ Len(TransformOutput) = Handled
    /\ \A i \in 1..Handled :
          /\ TransformOutput[i] = Utf8Encode(ToUpperCase(Utf8Decode(tInput[i])))
          /\ tInput[i] = <<97>> => TransformOutput[i] = <<65>>
          /\ tInput[i] = <<195, 169>> => TransformOutput[i] = <<195, 137>>
          /\ \A j \in 1..Len(TransformOutput[i]) : TransformOutput[i][j] \notin 97..122
    /\ tREnded => Handled = Len(tInput)
    /\ tEndEmitted => Len(tStdout) = Len(tInput)

C6_Witness ==
    /\ tEndEmitted
    /\ Len(tInput) >= 2
    /\ tInput[1] = <<97>>
    /\ tInput[2] = <<195, 169>>

\* C7: when the Transform has ended, the bytes written to process.stdout are
\* the uppercase of the whole input, however the input was cut into chunks.
C7_RechunkingInvariance ==
    tEndEmitted => Concat(tStdout) = Utf8Encode(ToUpperCase(Utf8Decode(Concat(tInput))))

\* C8: no step of the writable side of the Duplex changes its readable side
\* and no step of the readable side changes its writable side; the readable
\* side ends only in a step where currentCharCode has passed 90; after end()
\* the readable side still delivers all 26 chunks and then ends, and the
\* writable side finishes.
C8_HalvesIndependent ==
    /\ [][(writableSide' # writableSide) => (readableSide' = readableSide)]_vars
    /\ [][(~dREnded /\ dREnded') => currentCharCode > LastCharCode]_vars
    /\ (dWEnding ~> (dREndEmitted /\ dReceived = AtoZ))
    /\ (dWEnding ~> dWFinished)

C8_Witness == dWEnding /\ ~dREnded /\ dReceived # <<>> /\ dReceived # AtoZ

\* C9: the pipe leaves Idle only for Running and never returns to it;
\* Completed and Errored are kept once reached and nothing is written to the
\* sink after either; the sink is never finished in a run where an error was
\* raised, and at most one error is raised.
C9_PipeStateMachine ==
    /\ [](/\ pErrorsRaised <= 1
          /\ ~(pWFinished /\ pErrorsRaised > 0)
          /\ ppc = "pipe" => (PipeReceived = <<>> /\ pSrcPos = 0))
    /\ [][/\ PipeState = "Idle" => PipeState' \in {"Idle", "Running"}
          /\ PipeState # "Idle" => PipeState' # "Idle"
          /\ PipeState \in {"Completed", "Errored"} =>
                /\ PipeState' = PipeState
                /\ PipeReceived' = PipeReceived
                /\ pErrorsRaised' = pErrorsRaised]_vars

C9_Witness == PipeState = "Errored" /\ pDisk # <<>> /\ pWBuf # <<>> /\ pRBuf # <<>>

\* C10: the write handler has logged 'Hello', once, and has called back once
\* by the time write() returns, and nothing is received by the 'data'
\* listener before that.
C10_WriteBeforeReceive ==
    /\ dReceived # <<>> => dWritten = <<Hello>>
    /\ dpc \in {"end", "returned"} => dWritten = <<Hello>>
    /\ Len(dWritten) <= 1
    /\ dWriteCallbacks = Len(dWritten)

C10_Witness == dWritten = <<Hello>> /\ Len(dReceived) = 1 /\ ~dWFinished

====
